---- MODULE Spec2Model ----
(***************************************************************************)
(* A model of clone-ami-to-region: ImageCloner.cloneImage, the per-region  *)
(* pipeline cloneImageToRegion, the poller awaitImageCopyCompletion and    *)
(* the retrying Ec2 wrapper calls they are built on.                       *)
(*                                                                         *)
(* One action is one callback of the event loop, run to completion: the    *)
(* response of a client call runs async.retry's bookkeeping, the wrapper's *)
(* callback, async.series' step callback and whatever that starts or       *)
(* finishes, in one step.  The backoff timer of async.retry is folded into *)
(* the failing response: raising attempt issues the next attempt.          *)
(***************************************************************************)
EXTENDS Integers, Sequences, FiniteSets, TLC

(***************************************************************************)
(* Bounds of the model.                                                    *)
(***************************************************************************)
MaxRegions == 2
MaxWorkers == 3
MaxInvocations == 2
MaxPolls == 2
MaxCalls == 2

(***************************************************************************)
(* Program constants.                                                      *)
(***************************************************************************)
RetryTimes == 3
DefaultInterval == 30

Regions == {"eu-west-1", "us-west-2"}
AllRegions == Regions \cup {"ap-southeast-1"}
ImageStates == {"pending", "available", "failed", ""}

(***************************************************************************)
(* Errors are records; NoErr stands for null/undefined.  who is the index  *)
(* of the worker whose call produced the error, 0 for cloneImage itself.   *)
(***************************************************************************)
NoErr == [kind |-> "none", who |-> 0]
Err(kind, who) == [kind |-> kind, who |-> who]

NoImageId == 0
NoImage == [ImageId |-> "", State |-> ""]
NoPermissions == [defined |-> FALSE, grants |-> {}]

RECURSIVE SeqsUpTo(_, _)
SeqsUpTo(S, n) ==
  IF n = 0 THEN {<<>>}
  ELSE LET shorter == SeqsUpTo(S, n - 1)
       IN shorter \cup {Append(q, x) : q \in {p \in shorter : Len(p) = n - 1}, x \in S}

(***************************************************************************)
(* fillConfigurationDefaults: progressCheckIntervalInSeconds is set to the *)
(* default when the caller left it out (Absent).                           *)
(***************************************************************************)
Absent == -2
fillConfigurationDefaults(c) ==
  IF c.progressCheckIntervalInSeconds = Absent
  THEN [c EXCEPT !.progressCheckIntervalInSeconds = DefaultInterval]
  ELSE c

(***************************************************************************)
(* ConfigValidator.validate: the names of the properties that violate the  *)
(* schema.                                                                 *)
(***************************************************************************)
validate(c) ==
  {p \in {"sourceImageId"} : Len(c.sourceImageId) < 1}
  \cup {p \in {"sourceRegion"} : Len(c.sourceRegion) < 1}
  \cup {p \in {"destinationRegions"} :
          \/ Len(c.destinationRegions) < 1
          \/ \E k \in 1..Len(c.destinationRegions) : Len(c.destinationRegions[k]) < 1}
  \cup {p \in {"progressCheckIntervalInSeconds"} :
          \/ c.progressCheckIntervalInSeconds = Absent
          \/ c.progressCheckIntervalInSeconds < 0}

Configs ==
  [sourceImageId : {"ami-1", ""},
   sourceRegion : {"us-east-1"},
   destinationRegions : SeqsUpTo(Regions, MaxRegions),
   progressCheckIntervalInSeconds : {Absent, -1}]

VARIABLES
  config,                        \* this.config
  task,                          \* the task of cloneImage's async.series in progress
  results,                       \* the report, keyed by region
  firstCloneImageError,
  sourceImage,
  sourceImageLaunchPermissions,
  w,                             \* one record per call of cloneImageToRegion
  attempt,                       \* attempts made by cloneImage's async.retry in progress
  calls,                         \* cloneImage's own calls of the Ec2 wrapper methods
  eachCompleted,                 \* innerAsyncCallback calls counted by async.each
  signals,                       \* calls of asyncCallback of cloneImageToRegions
  thrown,                        \* only_once threw 'Callback was already called.'
  halted,                        \* the exception ended the process
  lookups,                       \* what the two source lookups called back with
  cbCount, cbError, cbResults,   \* what the top-level callback received
  cbOutcome,                     \* each worker's outcome when it was called
  failOrder,                     \* workers that failed, in the order they failed
  writes,                        \* writes to each report entry after initialization
  nextImageId,                   \* the id the service gives to the next copy
  ec,                            \* an Ec2 object and the wrapper call made on it
  cv,                            \* a configuration on its way through defaults and validation
  past                           \* what the earlier invocations of cloneImage ended with

vars == <<config, task, results, firstCloneImageError, sourceImage,
          sourceImageLaunchPermissions, w, attempt, calls, eachCompleted,
          signals, thrown, halted, lookups, cbCount, cbError, cbResults,
          cbOutcome, failOrder, writes, nextImageId, ec, cv, past>>

N == Len(config.destinationRegions)
Workers == 1..N
RegionOf(i) == config.destinationRegions[i]
\* A variant that keys the report by the first destination region only.
RegionKeysFirst ==
  {config.destinationRegions[k] : k \in 1..(IF Len(config.destinationRegions) > 0 THEN 1 ELSE 0)}

RegionKeys == {config.destinationRegions[k] : k \in 1..Len(config.destinationRegions)}

(***************************************************************************)
(* The tasks of cloneImageToRegion's async.series, in order.               *)
(***************************************************************************)
Steps == <<"copyImage", "awaitCompletion", "tagImage", "setLaunchPermissions">>
StepIndex(s) == CHOOSE k \in 1..Len(Steps) : Steps[k] = s

\* A variant that starts every remaining task at once, as async.parallel would.
ParallelNext(s) == {Steps[k] : k \in StepIndex(s) + 1..Len(Steps)}

\* async.series: the tasks started once task s has called back without error.
SeriesNext(s) ==
  IF StepIndex(s) < Len(Steps) THEN {Steps[StepIndex(s) + 1]} ELSE {}

\* The Ec2 wrapper method a task calls when it starts; awaitCompletion only
\* sets its timer.
WrapperOf(s) ==
  CASE s = "copyImage" -> "copyImage"
    [] s = "awaitCompletion" -> "describeImage"
    [] s = "tagImage" -> "tagImage"
    [] s = "setLaunchPermissions" -> "modifyImageAttribute"

NoCalls == [copyImage |-> 0, describeImage |-> 0, describeImageAttribute |-> 0,
            tagImage |-> 0, modifyImageAttribute |-> 0]

Placeholder == [error |-> Err("notAttempted", 0), imageId |-> NoImageId, success |-> FALSE]

\* The state of one call of cloneImageToRegion: the tasks of its series in
\* flight and started, the poller's phase and imageState, clonedImageId, the
\* wrapper calls it made, and what its callback received.
NoLookups ==
  [describeImage |-> [status |-> "none", error |-> NoErr],
   describeImageAttribute |-> [status |-> "none", error |-> NoErr]]

\* The image id and region a task of cloneImageToRegion passes to the call it
\* makes on the new image; NoTarget while the task has not made its call.
NoTarget == [imageId |-> NoImageId, region |-> ""]
NoTargets ==
  [s \in {"awaitCompletion", "tagImage", "setLaunchPermissions"} |-> NoTarget]

IdleWorker ==
  [image |-> NoImage, launchPermissions |-> NoPermissions, destinationRegion |-> "",
   targets |-> NoTargets,
   inflight |-> {}, started |-> <<>>, phase |-> "none", clonedImageId |-> NoImageId,
   imageState |-> "", observed |-> <<>>, waits |-> 0, intervals |-> <<>>,
   queries |-> 0, attempt |-> 0,
   calls |-> NoCalls, outcome |-> "idle",
   failedAt |-> "none", cbError |-> NoErr, cbImageId |-> NoImageId]


(***************************************************************************)
(* The Ec2 wrapper: every method but the unsupported-attribute check of    *)
(* modifyImageAttribute is a client call inside async.retry.               *)
(***************************************************************************)
Methods == {"copyImage", "describeImage", "describeImageAttribute", "findImages",
            "modifyImageAttribute", "tagImage"}

\* The client operation a wrapper method invokes.
ClientOp(m) ==
  CASE m = "copyImage" -> "copyImage"
    [] m = "describeImage" -> "describeImages"
    [] m = "describeImageAttribute" -> "describeImageAttribute"
    [] m = "findImages" -> "describeImages"
    [] m = "modifyImageAttribute" -> "modifyImageAttribute"
    [] m = "tagImage" -> "createTags"

\* The attributes a caller may name.  constants maps launchPermission only,
\* but its mappings are plain objects: the lookup mapping[attribute] also
\* finds what every object inherits, such as 'constructor'.
Attributes == {"launchPermission", "description", "constructor"}
Property(a) ==
  CASE a = "launchPermission" -> "LaunchPermission"
    [] a = "constructor" -> "inherited"
    [] OTHER -> ""

\* !property is false: the lookup found something.
Supported(a) == Property(a) # ""
NoAttribute == ""

\* What a client operation may answer with: for describeImages the number of
\* images, for copyImage the ImageId.
Responses == 0..2

EcIdle ==
  [method |-> "none", attribute |-> NoAttribute, status |-> "idle", attempts |-> 0,
   failures |-> 0, callbacks |-> 0, error |-> "none", response |-> 0,
   yielded |-> 0, done |-> 0]

(***************************************************************************)
(* A configuration as a caller may pass it: every property is a value with *)
(* its JavaScript type, "undefined" for a property that is not there.      *)
(***************************************************************************)
Value(t, str, num, arr) == [t |-> t, s |-> str, n |-> num, a |-> arr]
Undef == Value("undefined", "", 0, <<>>)
Obj == Value("object", "", 0, <<>>)
Str(x) == Value("string", x, 0, <<>>)
Num(k) == Value("number", "", k, <<>>)
Arr(q) == Value("array", "", 0, q)
Item(t, str, num) == [t |-> t, s |-> str, n |-> num]

PropNames == {"sourceImageId", "sourceRegion", "destinationRegions",
              "progressCheckIntervalInSeconds", "clientOptions", "other"}

EmptyRaw == [p \in PropNames |-> Undef]

\* input is the configuration as the caller built it, caller the caller's
\* object as it is now, config the cloner's this.config.
CvIdle == [stage |-> "none", input |-> EmptyRaw, caller |-> EmptyRaw, config |-> EmptyRaw,
           errors |-> {}, direct |-> <<>>]

\* Nothing has run yet: the state cloneImage starts from.
NothingRun ==
  /\ task = "none"
  /\ results = [r \in {} |-> Placeholder]
  /\ firstCloneImageError = NoErr
  /\ sourceImage = NoImage
  /\ sourceImageLaunchPermissions = NoPermissions
  /\ w = [i \in 1..MaxWorkers |-> IdleWorker]
  /\ attempt = 0
  /\ calls = NoCalls
  /\ eachCompleted = 0
  /\ signals = 0
  /\ thrown = FALSE
  /\ halted = FALSE
  /\ cbCount = 0
  /\ cbError = NoErr
  /\ cbResults = [r \in {} |-> Placeholder]
  /\ cbOutcome = [i \in 1..MaxWorkers |-> "idle"]
  /\ lookups = NoLookups
  /\ failOrder = <<>>
  /\ writes = [r \in AllRegions |-> 0]
  /\ nextImageId = 1
  /\ past = <<>>

Init ==
  /\ config \in {fillConfigurationDefaults(c) : c \in Configs}
  /\ NothingRun
  /\ ec = EcIdle
  /\ cv = CvIdle

(***************************************************************************)
(* The top-level callback, function (error) { callback(error, results) },  *)
(* as the final callback of cloneImage's series.  It records what it was   *)
(* handed and which workers were still running at that moment.             *)
(***************************************************************************)
TopCallback(err, res, wNew) ==
  /\ cbCount' = cbCount + 1
  /\ cbError' = err
  /\ cbResults' = res
  /\ cbOutcome' = [j \in 1..MaxWorkers |-> wNew[j].outcome]

\* A series task of cloneImage called asyncCallback(err) with an error: the
\* series ends and the top-level callback runs.
SeriesAbort(err, res) ==
  /\ task' = "finished"
  /\ TopCallback(err, res, w)

\* A variant that allows one attempt more than retryConfig.times.
CanRetryOnceMore(n) == n <= RetryTimes

\* A variant that gives up at the first failed attempt.
CanRetryNever(n) == FALSE

\* The attempts of one wrapper call: async.retry with retryConfig.times.
CanRetry(n) == n < RetryTimes

(***************************************************************************)
(* cloneImage: builds the report, validates, and on a valid configuration  *)
(* issues the describeImage call of getImage.                              *)
(***************************************************************************)
\* A variant that builds the report without its placeholder entries.
InitialResultsEmpty == [r \in {} |-> Placeholder]

InitialResults == [r \in RegionKeys |-> Placeholder]

\* A variant that reports the violations and goes on to getImage all the same.
CloneImageIgnoringErrors ==
  /\ task = "none"
  /\ ~halted
  /\ results' = InitialResults
  /\ task' = "getImage"
  /\ calls' = [calls EXCEPT !.describeImage = @ + 1]
  /\ attempt' = 1
  /\ UNCHANGED <<cbCount, cbError, cbResults, cbOutcome>>
  /\ UNCHANGED <<past, ec, cv, config, firstCloneImageError, sourceImage,
                 sourceImageLaunchPermissions, w, eachCompleted, signals,
                 thrown, halted, lookups, failOrder, writes,
                 nextImageId>>

CloneImage ==
  /\ task = "none"
  /\ ~halted
  /\ results' = InitialResults
  /\ IF validate(config) # {}
     THEN /\ SeriesAbort(Err("validation", 0), InitialResults)
          /\ UNCHANGED <<calls, attempt>>
     ELSE /\ task' = "getImage"
          /\ calls' = [calls EXCEPT !.describeImage = @ + 1]
          /\ attempt' = 1
          /\ UNCHANGED <<cbCount, cbError, cbResults, cbOutcome>>
  /\ UNCHANGED <<past, ec, cv, config, firstCloneImageError, sourceImage,
                 sourceImageLaunchPermissions, w, eachCompleted, signals,
                 thrown, halted, lookups, failOrder, writes,
                 nextImageId>>

\* The wrapper method a lookup task of cloneImage calls, and the error the
\* wrapper yields once its attempts are used up.
LookupOf(t) == IF t = "getImage" THEN "describeImage" ELSE "describeImageAttribute"
LookupError(t) ==
  Err(IF t = "getImage" THEN "describeImages" ELSE "describeImageAttribute", 0)

\* A variant in which a failed lookup does not end the series: getImage's
\* error is dropped and getImageLaunchPermissions issues its call.
SourceLookupFailsIgnored ==
  /\ task \in {"getImage", "getImageLaunchPermissions"}
  /\ ~halted
  /\ IF CanRetry(attempt)
     THEN /\ attempt' = attempt + 1
          /\ UNCHANGED <<task, lookups, calls, cbCount, cbError, cbResults, cbOutcome>>
     ELSE /\ lookups' = [lookups EXCEPT ![LookupOf(task)] =
                           [status |-> "failed", error |-> LookupError(task)]]
          /\ IF task = "getImage"
             THEN /\ task' = "getImageLaunchPermissions"
                  /\ calls' = [calls EXCEPT !.describeImageAttribute = @ + 1]
                  /\ attempt' = 1
                  /\ UNCHANGED <<cbCount, cbError, cbResults, cbOutcome>>
             ELSE /\ SeriesAbort(LookupError(task), results)
                  /\ UNCHANGED <<attempt, calls>>
  /\ UNCHANGED <<past, ec, cv, config, results, firstCloneImageError, sourceImage,
                 sourceImageLaunchPermissions, w, eachCompleted, signals,
                 thrown, halted, failOrder, writes,
                 nextImageId>>

\* An attempt of a wrapper call made by cloneImage itself fails: retried, or
\* after the last attempt the lookup error ends the series.
SourceLookupFails ==
  /\ task \in {"getImage", "getImageLaunchPermissions"}
  /\ ~halted
  /\ IF CanRetry(attempt)
     THEN /\ attempt' = attempt + 1
          /\ UNCHANGED <<task, lookups, cbCount, cbError, cbResults, cbOutcome>>
     ELSE /\ lookups' = [lookups EXCEPT ![LookupOf(task)] =
                           [status |-> "failed", error |-> LookupError(task)]]
          /\ SeriesAbort(LookupError(task), results)
          /\ UNCHANGED attempt
  /\ UNCHANGED <<past, ec, cv, config, results, firstCloneImageError, sourceImage,
                 sourceImageLaunchPermissions, w, calls, eachCompleted, signals,
                 thrown, halted, failOrder, writes,
                 nextImageId>>

\* describeImages answers for the source image: no image is an error that is
\* not retried, otherwise getImageLaunchPermissions issues its call.
GetImageResponds(found) ==
  /\ task = "getImage"
  /\ ~halted
  /\ IF ~found
     THEN /\ lookups' = [lookups EXCEPT !.describeImage =
                           [status |-> "failed", error |-> Err("noImage", 0)]]
          /\ SeriesAbort(Err("noImage", 0), results)
          /\ UNCHANGED <<sourceImage, calls, attempt>>
     ELSE /\ lookups' = [lookups EXCEPT !.describeImage.status = "ok"]
          /\ sourceImage' = [ImageId |-> config.sourceImageId, State |-> "available"]
          /\ task' = "getImageLaunchPermissions"
          /\ calls' = [calls EXCEPT !.describeImageAttribute = @ + 1]
          /\ attempt' = 1
          /\ UNCHANGED <<cbCount, cbError, cbResults, cbOutcome>>
  /\ UNCHANGED <<past, ec, cv, config, results, firstCloneImageError,
                 sourceImageLaunchPermissions, w, eachCompleted, signals,
                 thrown, halted, failOrder, writes,
                 nextImageId>>

(***************************************************************************)
(* cloneImageToRegion: starting tasks of its series.                       *)
(***************************************************************************)
\* A variant in which the delay grows with every tick.
TimeoutBackoff(k) == config.progressCheckIntervalInSeconds * 1000 * k

\* The delay of the k-th setTimeout of a poll, in milliseconds:
\* self.config.progressCheckIntervalInSeconds * 1000, whatever k.
Timeout(k) == config.progressCheckIntervalInSeconds * 1000

Begin(wr, S) ==
  [wr EXCEPT
     !.inflight = @ \cup S,
     !.started = @ \o SelectSeq(Steps, LAMBDA s : s \in S),
     !.targets = [s \in DOMAIN @ |->
                    IF s \in S
                    THEN [imageId |-> wr.clonedImageId, region |-> wr.destinationRegion]
                    ELSE @[s]],
     !.phase = IF "awaitCompletion" \in S THEN "timer" ELSE @,
     !.waits = IF "awaitCompletion" \in S THEN @ + 1 ELSE @,
     !.intervals = IF "awaitCompletion" \in S THEN Append(@, Timeout(wr.waits + 1)) ELSE @,
     !.attempt = IF S \ {"awaitCompletion"} # {} THEN 1 ELSE @,
     !.calls = [op \in DOMAIN wr.calls |->
                  wr.calls[op] + Cardinality({s \in S \ {"awaitCompletion"} : WrapperOf(s) = op})]]

\* A task called back without error: the series starts what follows it.
StepOk(wr, s) == Begin([wr EXCEPT !.inflight = @ \ {s}], SeriesNext(s))

\* A variant in which the series reports the error and starts the next task
\* all the same.
StepFailContinues(wr, s, e) ==
  [Begin([wr EXCEPT !.inflight = @ \ {s}], SeriesNext(s))
     EXCEPT !.outcome = "failed", !.failedAt = s, !.cbError = e,
            !.cbImageId = NoImageId]

\* A task called back with error e: the series skips the rest and calls
\* cloneImageToRegion's callback with e.
StepFail(wr, s, e) ==
  [wr EXCEPT !.inflight = @ \ {s}, !.outcome = "failed", !.failedAt = s,
             !.cbError = e, !.cbImageId = NoImageId]

\* A variant in which the id of the new image is kept in one place for all
\* workers: the callback receives the id of the latest copy.
SucceedWithLatestId(wr, s) ==
  [wr EXCEPT !.inflight = @ \ {s}, !.outcome = "ok", !.cbError = NoErr,
             !.cbImageId = nextImageId - 1]

\* The last task called back without error: callback(null, clonedImageId).
Succeed(wr, s) ==
  [wr EXCEPT !.inflight = @ \ {s}, !.outcome = "ok", !.cbError = NoErr,
             !.cbImageId = wr.clonedImageId]

\* A variant that starts the workers without the source image and its
\* launch permissions.
LaunchWorkersEmptyHanded ==
  [i \in DOMAIN w |->
     IF i \in Workers
     THEN Begin([IdleWorker EXCEPT !.outcome = "running",
                                   !.destinationRegion = RegionOf(i)], {Steps[1]})
     ELSE w[i]]

\* async.each starts cloneImageToRegion for every destination region, with
\* the source image and the launch permissions the lookups yielded.
LaunchWorkers ==
  [i \in DOMAIN w |->
     IF i \in Workers
     THEN Begin([IdleWorker EXCEPT !.outcome = "running",
                                   !.image = sourceImage,
                                   !.launchPermissions = sourceImageLaunchPermissions',
                                   !.destinationRegion = RegionOf(i)], {Steps[1]})
     ELSE w[i]]

\* describeImageAttribute answers: the fan-out starts.
GetImageLaunchPermissionsResponds ==
  /\ task = "getImageLaunchPermissions"
  /\ ~halted
  /\ sourceImageLaunchPermissions' = [defined |-> TRUE, grants |-> {"111222333444"}]
  /\ lookups' = [lookups EXCEPT !.describeImageAttribute.status = "ok"]
  /\ task' = "cloneImageToRegions"
  /\ w' = LaunchWorkers
  /\ UNCHANGED <<past, ec, cv, config, results, firstCloneImageError, sourceImage, attempt,
                 calls, eachCompleted, signals, thrown, halted, cbCount,
                 cbError, cbResults, cbOutcome, failOrder, writes,
                 nextImageId>>

(***************************************************************************)
(* The callback cloneImage hands to cloneImageToRegion, with what it sets  *)
(* off: async.each's final callback and the end of cloneImage's series.    *)
(***************************************************************************)
\* A variant that keeps the latest error instead of the first.
LastError(cur, err) == err

\* firstCloneImageError = firstCloneImageError || error
FirstError(cur, err) == IF cur = NoErr THEN err ELSE cur

\* A variant that writes the error into every entry of the report.
RecordFailureEverywhere(res, r, err) ==
  [q \in DOMAIN res |-> [res[q] EXCEPT !.error = err]]

\* results[destinationRegion].error = error
RecordFailure(res, r, err) == [res EXCEPT ![r].error = err]

\* A variant that replaces the whole report by the entry of the region.
RecordSuccessAlone(res, r, id) ==
  [q \in {r} |-> [error |-> NoErr, imageId |-> id, success |-> TRUE]]

\* results[destinationRegion] = {success: true, imageId: clonedImageId}
RecordSuccess(res, r, id) ==
  [res EXCEPT ![r] = [error |-> NoErr, imageId |-> id, success |-> TRUE]]

\* A variant in which a failure stops the workers of the other regions.
CancelSiblings(wNew, i) ==
  [j \in DOMAIN wNew |->
     IF j # i /\ wNew[j].outcome = "running"
     THEN [wNew[j] EXCEPT !.inflight = {}, !.outcome = "cancelled"]
     ELSE wNew[j]]

\* What a worker's failure does to the workers of the other regions: nothing.
EachOnError(wNew, i) == wNew

\* async.each calls its final callback once every iteratee has called
\* innerAsyncCallback.
EachDone(completed) == completed = N

\* asyncCallback(err) of the task cloneImageToRegions.  The first call ends
\* the series and runs the top-level callback; only_once makes any further
\* call throw 'Callback was already called.', which may end the process.
Signal(err, res, wNew) ==
  /\ signals' = signals + 1
  /\ IF signals = 0
     THEN /\ task' = "finished"
          /\ TopCallback(err, res, wNew)
          /\ UNCHANGED <<thrown, halted>>
     ELSE /\ thrown' = TRUE
          /\ halted' \in BOOLEAN
          /\ UNCHANGED <<task, cbCount, cbError, cbResults, cbOutcome>>

WorkerCallback(i, wrNew) ==
  LET r == RegionOf(i)
      err == wrNew.cbError
      wNew == [w EXCEPT ![i] = wrNew]
  IN IF err # NoErr
     THEN LET first == FirstError(firstCloneImageError, err)
              res == RecordFailure(results, r, err)
          IN /\ firstCloneImageError' = first
             /\ results' = res
             /\ failOrder' = Append(failOrder, i)
             /\ writes' = [writes EXCEPT ![r] = @ + 1]
             /\ eachCompleted' = eachCompleted + 1
             /\ w' = EachOnError(wNew, i)
             /\ IF EachDone(eachCompleted + 1)
                THEN Signal(first, res, EachOnError(wNew, i))
                ELSE UNCHANGED <<signals, task, cbCount, cbError, cbResults,
                                 cbOutcome, thrown, halted>>
     ELSE LET res == RecordSuccess(results, r, wrNew.cbImageId)
          IN /\ results' = res
             /\ writes' = [writes EXCEPT ![r] = @ + 1]
             /\ w' = wNew
             /\ Signal(NoErr, res, wNew)
             /\ UNCHANGED <<firstCloneImageError, failOrder, eachCompleted>>

\* The variables a worker's step leaves alone while the worker keeps running.
Quiet ==
  UNCHANGED <<task, results, firstCloneImageError, eachCompleted, signals,
              thrown, halted, cbCount, cbError, cbResults, cbOutcome, failOrder,
              writes>>

Fixed ==
  UNCHANGED <<past, ec, cv, config, sourceImage, sourceImageLaunchPermissions, attempt, calls,
              lookups>>

Running(i, s) ==
  /\ ~halted
  /\ i \in Workers
  /\ w[i].outcome = "running"
  /\ s \in w[i].inflight

\* The error a wrapper call of task s yields once its attempts are used up.
ErrorOf(s, i) ==
  Err(CASE s = "copyImage" -> "copyImage"
        [] s = "awaitCompletion" -> "describeImages"
        [] s = "tagImage" -> "createTags"
        [] s = "setLaunchPermissions" -> "modifyImageAttribute", i)

\* A variant in which the loop sets its timer again after an error of
\* describeImage, while the bound on polls allows.
PollRestarts(i, e) ==
  IF w[i].queries < MaxPolls
  THEN /\ w' = [w EXCEPT ![i].phase = "timer", ![i].waits = @ + 1,
                         ![i].intervals = Append(@, Timeout(w[i].waits + 1))]
       /\ Quiet
  ELSE WorkerCallback(i, StepFail(w[i], "awaitCompletion", e))

\* What an error of describeImage does to the loop: asyncCallback(error) ends
\* doUntil and the loop's final callback receives the error.
PollAbort(i, e) == WorkerCallback(i, StepFail(w[i], "awaitCompletion", e))

(***************************************************************************)
(* An attempt of the wrapper call of task s of worker i fails: retried, or *)
(* after the last attempt the task fails and with it the worker.           *)
(***************************************************************************)
AttemptFails(i, s) ==
  /\ Running(i, s)
  /\ s = "awaitCompletion" => w[i].phase = "query"
  /\ IF CanRetry(w[i].attempt)
     THEN /\ w' = [w EXCEPT ![i].attempt = @ + 1]
          /\ Quiet
     ELSE IF s = "awaitCompletion"
          THEN PollAbort(i, ErrorOf(s, i))
          ELSE WorkerCallback(i, StepFail(w[i], s, ErrorOf(s, i)))
  /\ Fixed
  /\ UNCHANGED nextImageId

\* A variant in which a region that an earlier invocation copied to gets
\* that invocation's image again instead of a new copy.
CopyImageRespondsReusing(i) ==
  /\ Running(i, "copyImage")
  /\ LET r == RegionOf(i)
         reuse == /\ past # <<>>
                  /\ r \in DOMAIN past[1].results
                  /\ past[1].results[r].success
         id == IF reuse THEN past[1].results[r].imageId ELSE nextImageId
     IN /\ w' = [w EXCEPT ![i] = StepOk([w[i] EXCEPT !.clonedImageId = id], "copyImage")]
        /\ nextImageId' = IF reuse THEN nextImageId ELSE nextImageId + 1
  /\ Quiet
  /\ Fixed

\* client.copyImage answers with the id of the new image.
CopyImageResponds(i) ==
  /\ Running(i, "copyImage")
  /\ w' = [w EXCEPT ![i] = StepOk([w[i] EXCEPT !.clonedImageId = nextImageId], "copyImage")]
  /\ nextImageId' = nextImageId + 1
  /\ Quiet
  /\ Fixed

(***************************************************************************)
(* awaitImageCopyCompletion: the timer fires and describeImage is called.  *)
(***************************************************************************)
PollTimerFires(i) ==
  /\ Running(i, "awaitCompletion")
  /\ w[i].phase = "timer"
  /\ w' = [w EXCEPT ![i].phase = "query",
                    ![i].queries = @ + 1,
                    ![i].attempt = 1,
                    ![i].calls.describeImage = @ + 1]
  /\ Quiet
  /\ Fixed
  /\ UNCHANGED nextImageId

\* A variant of the test that ends the loop on any state that is not empty.
PollDoneAnyState(imageState) == imageState # ""

\* A variant of the test that looks for 'pending' only.
PollDoneNotPending(imageState) == imageState # "pending"

\* The test function of doUntil.
PollDone(imageState) == imageState # "" /\ imageState # "pending"

\* imageState = image.State
Observe(wr, state) == [wr EXCEPT !.imageState = state, !.observed = Append(@, state)]

\* A variant in which the poll calls back with an error once the image's
\* state is 'failed'.
PollRespondsFailedIsError(i, found, state) ==
  /\ Running(i, "awaitCompletion")
  /\ w[i].phase = "query"
  /\ (found /\ ~PollDone(state)) => w[i].queries < MaxPolls
  /\ IF ~found
     THEN WorkerCallback(i, StepFail(w[i], "awaitCompletion", Err("noImage", i)))
     ELSE IF state = "failed"
     THEN WorkerCallback(i, StepFail(Observe(w[i], state), "awaitCompletion",
                                     Err("imageFailed", i)))
     ELSE /\ w' = [w EXCEPT ![i] =
                     IF PollDone(state)
                     THEN StepOk([Observe(w[i], state) EXCEPT !.phase = "none"],
                                 "awaitCompletion")
                     ELSE [Observe(w[i], state) EXCEPT !.phase = "timer",
                                                       !.waits = @ + 1,
                                                       !.intervals =
                                                         Append(@, Timeout(w[i].waits + 1))]]
          /\ Quiet
  /\ Fixed
  /\ UNCHANGED nextImageId

\* describeImages answers for the new image: no image at all is an error,
\* otherwise imageState is set and the loop ends or sets its timer again.
PollResponds(i, found, state) ==
  /\ Running(i, "awaitCompletion")
  /\ w[i].phase = "query"
  /\ (found /\ ~PollDone(state)) => w[i].queries < MaxPolls
  /\ IF ~found
     THEN PollAbort(i, Err("noImage", i))
     ELSE /\ w' = [w EXCEPT ![i] =
                     IF PollDone(state)
                     THEN StepOk([Observe(w[i], state) EXCEPT !.phase = "none"],
                                 "awaitCompletion")
                     ELSE [Observe(w[i], state) EXCEPT !.phase = "timer",
                                                       !.waits = @ + 1,
                                                       !.intervals =
                                                         Append(@, Timeout(w[i].waits + 1))]]
          /\ Quiet
  /\ Fixed
  /\ UNCHANGED nextImageId

\* client.createTags answers.
TagImageResponds(i) ==
  /\ Running(i, "tagImage")
  /\ w' = [w EXCEPT ![i] = StepOk(w[i], "tagImage")]
  /\ Quiet
  /\ Fixed
  /\ UNCHANGED nextImageId

\* client.modifyImageAttribute answers: the last task of the series is done.
ModifyImageAttributeResponds(i) ==
  /\ Running(i, "setLaunchPermissions")
  /\ WorkerCallback(i, Succeed(w[i], "setLaunchPermissions"))
  /\ Fixed
  /\ UNCHANGED nextImageId

Next ==
  \/ CloneImage
  \/ SourceLookupFails
  \/ \E found \in BOOLEAN : GetImageResponds(found)
  \/ GetImageLaunchPermissionsResponds
  \/ \E i \in 1..MaxWorkers :
       \/ \E s \in {Steps[k] : k \in 1..Len(Steps)} : AttemptFails(i, s)
       \/ CopyImageResponds(i)
       \/ PollTimerFires(i)
       \/ \E found \in BOOLEAN, state \in ImageStates : PollResponds(i, found, state)
       \/ TagImageResponds(i)
       \/ ModifyImageAttributeResponds(i)

Spec == Init /\ [][Next]_vars

(***************************************************************************)
(* The Ec2 wrapper on its own: calls of its methods, one at a time, and    *)
(* the answers of the client.                                              *)
(***************************************************************************)
MainVars == <<config, task, results, firstCloneImageError, sourceImage,
              sourceImageLaunchPermissions, w, attempt, calls, eachCompleted,
              signals, thrown, halted, lookups, cbCount, cbError, cbResults,
              cbOutcome, failOrder, writes, nextImageId, past>>

\* The configuration of README's example, with one destination region.
ExampleConfig ==
  [sourceImageId |-> "ami-1", sourceRegion |-> "us-east-1",
   destinationRegions |-> <<"eu-west-1">>,
   progressCheckIntervalInSeconds |-> DefaultInterval]

\* A variant that takes an empty list of images for an image.
NoImageFoundNever(d) == FALSE

\* !data.Images.length
NoImageFound(d) == d = 0

\* What the wrapper's callback receives once the client has answered d.
EcOutcome(m, a, d) ==
  CASE m = "describeImage" ->
         IF NoImageFound(d) THEN [status |-> "error", error |-> "noImage", yielded |-> 0]
         ELSE [status |-> "ok", error |-> "none", yielded |-> 1]
    [] m = "describeImageAttribute" ->
         IF ~Supported(a) THEN [status |-> "error", error |-> "unsupported", yielded |-> 0]
         ELSE [status |-> "ok", error |-> "none",
               yielded |-> IF Property(a) = "LaunchPermission" THEN d ELSE 0]
    [] m \in {"copyImage", "findImages"} ->
         [status |-> "ok", error |-> "none", yielded |-> d]
    [] m \in {"modifyImageAttribute", "tagImage"} ->
         [status |-> "ok", error |-> "none", yielded |-> 0]

\* A wrapper method is called.  modifyImageAttribute rejects an attribute it
\* has no property for before any client call; every other call issues its
\* first attempt.
EcCall(m, a) ==
  /\ ec.status # "inflight"
  /\ ec.done < MaxCalls
  /\ (a = NoAttribute) <=> (m \notin {"describeImageAttribute", "modifyImageAttribute"})
  /\ ec' = IF m = "modifyImageAttribute" /\ ~Supported(a)
           THEN [EcIdle EXCEPT !.method = m, !.attribute = a, !.status = "error",
                               !.callbacks = 1, !.error = "unsupported",
                               !.done = ec.done + 1]
           ELSE [EcIdle EXCEPT !.method = m, !.attribute = a, !.status = "inflight",
                               !.attempts = 1, !.done = ec.done]
  /\ UNCHANGED <<cv, MainVars>>

\* The client calls back with an error: async.retry tries again, or after
\* the last attempt the wrapper's callback receives the error.
EcClientFails ==
  /\ ec.status = "inflight"
  /\ ec' = IF CanRetry(ec.attempts)
           THEN [ec EXCEPT !.attempts = @ + 1, !.failures = @ + 1]
           ELSE [ec EXCEPT !.failures = @ + 1, !.status = "error",
                           !.error = ClientOp(ec.method), !.callbacks = @ + 1,
                           !.done = @ + 1]
  /\ UNCHANGED <<cv, MainVars>>

\* The client calls back with data: async.retry stops and the wrapper's
\* callback runs.
EcClientSucceeds(d) ==
  /\ ec.status = "inflight"
  /\ LET o == EcOutcome(ec.method, ec.attribute, d)
     IN ec' = [ec EXCEPT !.status = o.status, !.error = o.error,
                         !.yielded = o.yielded, !.response = d,
                         !.callbacks = @ + 1, !.done = @ + 1]
  /\ UNCHANGED <<cv, MainVars>>

EcInit ==
  /\ config = ExampleConfig
  /\ NothingRun
  /\ ec = EcIdle
  /\ cv = CvIdle

EcNext ==
  \/ \E m \in Methods, a \in Attributes \cup {NoAttribute} : EcCall(m, a)
  \/ EcClientFails
  \/ \E d \in Responses : EcClientSucceeds(d)

EcSpec == EcInit /\ [][EcNext]_vars

(***************************************************************************)
(* A configuration on its way through the ImageCloner constructor and the  *)
(* validateConfig task of cloneImage, and through ConfigValidator.validate *)
(* called on its own.                                                      *)
(***************************************************************************)
RawConfigs ==
  [sourceImageId : {Undef, Str(""), Str("ami-1"), Num(1)},
   sourceRegion : {Str("us-east-1"), Str("")},
   destinationRegions :
     {Undef, Str("eu-west-1"), Arr(<<>>),
      Arr(<<Item("string", "eu-west-1", 0)>>),
      Arr(<<Item("string", "", 0)>>),
      Arr(<<Item("string", "eu-west-1", 0), Item("number", "", 1)>>),
      Arr(<<Item("string", "eu-west-1", 0), Item("string", "eu-west-1", 0)>>)},
   progressCheckIntervalInSeconds : {Undef, Num(0), Num(DefaultInterval), Num(-1), Str("30")},
   clientOptions : {Undef, Obj, Str("x")},
   other : {Undef, Str("x")}]

\* type: 'string', minLength: 1
ValidString(v) == v.t = "string" /\ Len(v.s) >= 1

\* A variant of the default filling that also replaces a falsy value.
DefaultsOverFalsy(rc) ==
  [rc EXCEPT !.progressCheckIntervalInSeconds =
     IF @.t = "undefined" \/ @ = Num(0) THEN Num(DefaultInterval) ELSE @]

\* _.defaults(config, {progressCheckIntervalInSeconds: 30}): only a property
\* that is undefined is set.
Defaults(rc) ==
  [rc EXCEPT !.progressCheckIntervalInSeconds =
     IF @.t = "undefined" THEN Num(DefaultInterval) ELSE @]

\* A variant of the schema that lets other properties through.
AdditionalAllowed(rc) == {}

\* additionalProperties: false
Additional(rc) == {p \in {"other"} : rc[p].t # "undefined"}

\* validator.validate(config, configSchema).errors, as the set of the names
\* of the properties that violate the schema.
Violations(rc) ==
  {p \in {"sourceImageId", "sourceRegion"} : ~ValidString(rc[p])}
  \cup {p \in {"destinationRegions"} :
          \/ rc[p].t # "array"
          \/ Len(rc[p].a) < 1
          \/ \E k \in 1..Len(rc[p].a) : ~ValidString(rc[p].a[k])}
  \cup {p \in {"progressCheckIntervalInSeconds"} :
          \/ rc[p].t # "number"
          \/ rc[p].n < 0}
  \cup {p \in {"clientOptions"} : rc[p].t \notin {"undefined", "object"}}
  \cup Additional(rc)

\* this.config = this.fillConfigurationDefaults(config)
\* _.defaults assigns to the object it is given and returns that object, so
\* this.config and the caller's configuration are one object.
CvConstruct ==
  /\ cv.stage = "none"
  /\ cv' = [cv EXCEPT !.stage = "constructed",
                      !.caller = Defaults(cv.caller),
                      !.config = Defaults(cv.caller)]
  /\ UNCHANGED <<ec, MainVars>>

\* The validateConfig task of cloneImage.
CvValidateConfig ==
  /\ cv.stage = "constructed"
  /\ cv' = [cv EXCEPT !.stage = "validated", !.errors = Violations(cv.config)]
  /\ UNCHANGED <<ec, MainVars>>

\* ConfigValidator.validate called on the caller's object as it is now.
CvValidate ==
  /\ cv.direct = <<>>
  /\ LET current == cv.caller
     IN cv' = [cv EXCEPT !.direct = <<[config |-> current,
                                       errors |-> Violations(current)]>>]
  /\ UNCHANGED <<ec, MainVars>>

CfgInit ==
  /\ config = ExampleConfig
  /\ NothingRun
  /\ ec = EcIdle
  /\ cv \in {[CvIdle EXCEPT !.input = rc, !.caller = rc] : rc \in RawConfigs}

CfgNext == CvConstruct \/ CvValidateConfig \/ CvValidate

CfgSpec == CfgInit /\ [][CfgNext]_vars

(***************************************************************************)
(* cloneImage for three destination regions with remote calls that answer, *)
(* under weak fairness: whatever can happen next eventually does.  The     *)
(* client operations of the workers answer at their first attempt; a poll  *)
(* may find any state, or no image.                                        *)
(***************************************************************************)
ThreeRegionConfig ==
  [sourceImageId |-> "ami-1", sourceRegion |-> "us-east-1",
   destinationRegions |-> <<"eu-west-1", "us-west-2", "ap-southeast-1">>,
   progressCheckIntervalInSeconds |-> DefaultInterval]

LiveInit ==
  /\ config = ThreeRegionConfig
  /\ NothingRun
  /\ ec = EcIdle
  /\ cv = CvIdle

\* The states the polls of this specification find.
LivePollStates == {"pending", "available"}

LiveNext ==
  \/ CloneImage
  \/ SourceLookupFails
  \/ \E found \in BOOLEAN : GetImageResponds(found)
  \/ GetImageLaunchPermissionsResponds
  \/ \E i \in 1..MaxWorkers :
       \/ CopyImageResponds(i)
       \/ PollTimerFires(i)
       \/ \E found \in BOOLEAN, state \in LivePollStates : PollResponds(i, found, state)
       \/ TagImageResponds(i)
       \/ ModifyImageAttributeResponds(i)

LiveSpec == LiveInit /\ [][LiveNext]_vars /\ WF_vars(LiveNext)

(***************************************************************************)
(* cloneImage invoked again once an invocation is over.  exports.cloneImage *)
(* builds a new ImageCloner and cloneImage a new report for every          *)
(* invocation; only the service, which numbers the copies, lives on.       *)
(***************************************************************************)
TwoRegionConfig ==
  [sourceImageId |-> "ami-1", sourceRegion |-> "us-east-1",
   destinationRegions |-> <<"eu-west-1", "us-west-2">>,
   progressCheckIntervalInSeconds |-> DefaultInterval]

\* What an invocation that is over leaves behind for the observer.
Ended ==
  [error |-> cbError,
   results |-> results,
   copyCalls |-> Cardinality({i \in Workers : w[i].calls.copyImage > 0}),
   fanOut |-> \E i \in Workers : w[i].outcome # "idle",
   imageIds |-> {w[i].clonedImageId : i \in Workers} \ {NoImageId}]

InvokeAgain ==
  /\ task = "finished"
  /\ ~halted
  /\ \A i \in Workers : w[i].outcome # "running"
  /\ Len(past) < MaxInvocations - 1
  /\ past' = Append(past, Ended)
  /\ task' = "none"
  /\ results' = [r \in {} |-> Placeholder]
  /\ firstCloneImageError' = NoErr
  /\ sourceImage' = NoImage
  /\ sourceImageLaunchPermissions' = NoPermissions
  /\ w' = [i \in 1..MaxWorkers |-> IdleWorker]
  /\ attempt' = 0
  /\ calls' = NoCalls
  /\ eachCompleted' = 0
  /\ signals' = 0
  /\ thrown' = FALSE
  /\ cbCount' = 0
  /\ cbError' = NoErr
  /\ cbResults' = [r \in {} |-> Placeholder]
  /\ cbOutcome' = [i \in 1..MaxWorkers |-> "idle"]
  /\ lookups' = NoLookups
  /\ failOrder' = <<>>
  /\ writes' = [r \in AllRegions |-> 0]
  /\ UNCHANGED <<config, halted, nextImageId, ec, cv>>

TwiceInit ==
  /\ config = TwoRegionConfig
  /\ NothingRun
  /\ ec = EcIdle
  /\ cv = CvIdle

TwiceNext == LiveNext \/ InvokeAgain

TwiceSpec == TwiceInit /\ [][TwiceNext]_vars

TypeOK ==
  /\ task \in {"none", "getImage", "getImageLaunchPermissions",
               "cloneImageToRegions", "finished"}
  /\ cbCount \in 0..1
  /\ \A i \in 1..MaxWorkers : w[i].attempt \in 0..RetryTimes

(***************************************************************************)
(* Properties.                                                             *)
(***************************************************************************)
FanOutStarted == \E i \in Workers : w[i].outcome # "idle"
Failed(i) == w[i].outcome = "failed"
CalledBack == cbCount > 0
LookupFailed ==
  \/ lookups.describeImage.status = "failed"
  \/ lookups.describeImageAttribute.status = "failed"
AllIdle == \A i \in 1..MaxWorkers : w[i] = IdleWorker
AllPlaceholders(res) == \A r \in DOMAIN res : res[r] = Placeholder

\* C1: when the top-level callback is invoked after the fan-out started, no
\* worker is still running and no entry of the report it receives is still
\* the 'Cloning not attempted' placeholder.
C1_CallbackAfterAllWorkers ==
  (CalledBack /\ FanOutStarted) =>
    /\ \A i \in Workers : cbOutcome[i] # "running"
    /\ \A r \in DOMAIN cbResults : cbResults[r] # Placeholder

\* C2: the top-level callback receives an error exactly when the
\* configuration is invalid, a source lookup failed, or some worker had
\* failed when it was invoked.
C2_ErrorIffSomethingFailed ==
  CalledBack =>
    (cbError # NoErr <=>
       \/ validate(config) # {}
       \/ LookupFailed
       \/ \E i \in Workers : cbOutcome[i] = "failed")

\* C3: if every worker succeeds, the top-level callback has received no
\* error and a report whose entry for every destination region has success
\* true and the image id that region's worker yielded.
C3_AllSucceedFullReport ==
  (CalledBack /\ N >= 1 /\ \A i \in Workers : w[i].outcome = "ok") =>
    /\ cbError = NoErr
    /\ \A i \in Workers :
         /\ cbResults[RegionOf(i)].success
         /\ cbResults[RegionOf(i)].imageId = w[i].cbImageId

\* C4: every invocation of the top-level callback carries a report with an
\* entry for every region named in destinationRegions.
C4_ReportAlwaysDelivered ==
  CalledBack => DOMAIN cbResults = RegionKeys

C4_Witness ==
  /\ CalledBack
  /\ Cardinality(RegionKeys) = 2
  /\ \E i \in Workers : cbOutcome[i] = "failed"

C6_FailureLeavesSiblingsAlone ==
  /\ [](\A j \in 1..MaxWorkers :
          /\ w[j].outcome \in {"idle", "running", "ok", "failed"}
          /\ w[j].outcome = "running" => w[j].inflight # {}
          /\ w[j].outcome = "failed" => w[j].cbError.who = j)
  /\ [][\A i \in 1..MaxWorkers :
          (w[i].outcome = "running" /\ w'[i].outcome = "failed") =>
             /\ \A j \in 1..MaxWorkers \ {i} : w'[j] = w[j]
             /\ halted' = halted]_vars

C6_Witness ==
  /\ N = 2
  /\ Failed(1)
  /\ w[1].failedAt = "copyImage"
  /\ w[2].outcome = "ok"
  /\ Len(w[2].started) = Len(Steps)

\* C7: after cloneImage ran on an invalid configuration no wrapper call and
\* no attempt of one was made, no worker was launched, the top-level
\* callback received an error, and every entry of the report is the
\* placeholder.
C7_InvalidConfigStopsEverything ==
  (validate(config) # {} /\ task # "none") =>
    /\ calls = NoCalls
    /\ attempt = 0
    /\ AllIdle
    /\ cbCount = 1
    /\ cbError # NoErr
    /\ AllPlaceholders(cbResults)
    /\ AllPlaceholders(results)
    /\ DOMAIN results = RegionKeys

C7_Witness ==
  /\ validate(config) # {}
  /\ task = "finished"
  /\ N = 2
  /\ cbCount = 1

\* C8: if describing the source image failed, describeImageAttribute was not
\* called; if either source lookup failed, no worker was launched, the
\* top-level error is the lookup's error and every entry of the report is
\* the placeholder.
C8_LookupFailureStopsEverything ==
  /\ lookups.describeImage.status = "failed" =>
       /\ calls.describeImageAttribute = 0
       /\ cbError = lookups.describeImage.error
  /\ lookups.describeImageAttribute.status = "failed" =>
       cbError = lookups.describeImageAttribute.error
  /\ LookupFailed =>
       /\ AllIdle
       /\ cbCount = 1
       /\ cbError # NoErr
       /\ AllPlaceholders(cbResults)
       /\ \A r \in DOMAIN results : ~results[r].success
       /\ DOMAIN cbResults = RegionKeys

C8_Witness ==
  /\ lookups.describeImageAttribute.status = "failed"
  /\ N = 2
  /\ cbCount = 1

\* The wrapper calls and timers a worker has made for the task s.
Invoked(i, s) ==
  IF s = "awaitCompletion"
  THEN w[i].waits + w[i].queries + w[i].calls.describeImage
  ELSE w[i].calls[WrapperOf(s)]

\* The errors the task s can call back with.
ErrorsOf(s, i) ==
  {ErrorOf(s, i)} \cup (IF s = "awaitCompletion" THEN {Err("noImage", i)} ELSE {})

\* C9: a worker that failed at step k has invoked none of the steps after k,
\* and its callback received the error of step k.
C9_FailureSkipsLaterSteps ==
  \A i \in Workers :
    Failed(i) =>
      /\ w[i].failedAt \in {Steps[k] : k \in 1..Len(Steps)}
      /\ \A k \in StepIndex(w[i].failedAt) + 1..Len(Steps) :
           /\ Invoked(i, Steps[k]) = 0
           /\ \A m \in 1..Len(w[i].started) : w[i].started[m] # Steps[k]
      /\ \A k \in 1..StepIndex(w[i].failedAt) : Invoked(i, Steps[k]) > 0
      /\ w[i].cbError \in ErrorsOf(w[i].failedAt, i)
      /\ w[i].cbImageId = NoImageId

C9_Witness ==
  \E i \in Workers :
    /\ Failed(i)
    /\ w[i].failedAt = "tagImage"
    /\ w[i].calls.tagImage = 1
    /\ w[i].calls.modifyImageAttribute = 0

\* C10: the tasks of one region are started in the order copy, await, tag,
\* permissions, each only once the one before it is no longer in flight, so
\* at most one is in flight at any time.
C10_StepsStrictlyOrdered ==
  \A i \in Workers :
    /\ Cardinality(w[i].inflight) <= 1
    /\ Len(w[i].started) <= Len(Steps)
    /\ \A k \in 1..Len(w[i].started) : w[i].started[k] = Steps[k]
    /\ \A s \in w[i].inflight : s = w[i].started[Len(w[i].started)]
    /\ Len(w[i].started) >= 2 => w[i].clonedImageId # NoImageId
    /\ Len(w[i].started) >= 3 => w[i].queries >= 1 /\ PollDone(w[i].imageState)

C10_Witness ==
  \E i \in Workers :
    /\ w[i].inflight = {"setLaunchPermissions"}
    /\ w[i].started = Steps
    /\ w[i].queries = 2

\* The number of distinct entries of a list of regions.
RECURSIVE DistinctCount(_)
DistinctCount(q) ==
  IF q = <<>> THEN 0
  ELSE LET front == SubSeq(q, 1, Len(q) - 1)
       IN IF \E k \in 1..Len(front) : front[k] = q[Len(q)]
          THEN DistinctCount(front)
          ELSE DistinctCount(front) + 1

Completed(i) == w[i].outcome \in {"ok", "failed"}

\* C11: once a region's worker has completed, its report entry has exactly
\* one of imageId and error: success with an imageId and no error, or no
\* success with an error and no imageId.
C11_ExactlyOneOfImageIdAndError ==
  \A i \in Workers :
    (validate(config) = {} /\ Completed(i)) =>
      LET e == results[RegionOf(i)]
      IN /\ e.success <=> (e.imageId # NoImageId /\ e.error = NoErr)
         /\ ~e.success <=> (e.error # NoErr /\ e.imageId = NoImageId)

\* C12, as claimed: a valid configuration with N destination regions has a
\* report of exactly N keys from initialization on.
C12_ExactlyNKeys ==
  (validate(config) = {} /\ task # "none") =>
    /\ Cardinality(DOMAIN results) = N
    /\ CalledBack => Cardinality(DOMAIN cbResults) = N

\* C12, as amended: the report has exactly one key per distinct region of
\* destinationRegions, from initialization to the top-level callback.
C12_OneKeyPerDistinctRegion ==
  (validate(config) = {} /\ task # "none") =>
    /\ Cardinality(DOMAIN results) = DistinctCount(config.destinationRegions)
    /\ \A k \in 1..N : config.destinationRegions[k] \in DOMAIN results
    /\ CalledBack => DOMAIN cbResults = DOMAIN results

C12_Witness ==
  /\ validate(config) = {}
  /\ N = 2
  /\ DistinctCount(config.destinationRegions) = 1
  /\ CalledBack
  /\ Cardinality(DOMAIN cbResults) = 1

\* C13: every report entry is written at most once after initialization, and
\* once the fan-out has started every report key has exactly one worker.
C13_OneWriterPerEntry ==
  /\ \A r \in Regions : writes[r] <= 1
  /\ FanOutStarted =>
       \A r \in DOMAIN results :
         Cardinality({i \in Workers : RegionOf(i) = r /\ w[i].outcome # "idle"}) = 1

\* C14: a wrapper call invokes its client operation at most 3 times, makes
\* no attempt after a successful one, calls its callback exactly once, and
\* yields the client's error only when all 3 attempts failed.
C14_BoundedRetry ==
  /\ ec.attempts <= RetryTimes
  /\ ec.attempts - ec.failures \in 0..1
  /\ ec.status = "inflight" => (ec.callbacks = 0 /\ ec.attempts = ec.failures + 1)
  /\ ec.status \in {"ok", "error"} => ec.callbacks = 1
  /\ ec.status = "ok" => ec.attempts = ec.failures + 1
  /\ (ec.status = "error" /\ ec.error = ClientOp(ec.method)) =>
       (ec.attempts = RetryTimes /\ ec.failures = RetryTimes)
  /\ ec.failures = RetryTimes => ec.status = "error"

C14_Witness ==
  /\ ec.method = "findImages"
  /\ ec.status = "error"
  /\ ec.attempts = RetryTimes
  /\ ec.callbacks = 1
  /\ ec.done = 2

\* C15: a wrapper call whose attempt failed and whose later attempt, within
\* the 3 attempts, succeeded yields success with that attempt's result, and
\* the region's outcome built on it is a success: a retried copy hands the
\* new image's id to the poll, a worker whose last call was retried calls
\* back without error and its region's entry is a success; a wrapper call
\* fails a worker only once all its attempts are used up.
C15_RetryThenSuccess ==
  \A i \in Workers :
    /\ (w[i].attempt > 1 /\ w[i].started = <<"copyImage", "awaitCompletion">>
          /\ w[i].queries = 0) =>
         (w[i].outcome = "running" /\ w[i].clonedImageId # NoImageId
            /\ w[i].calls.copyImage = 1)
    /\ (w[i].attempt > 1 /\ w[i].outcome = "ok") =>
         /\ w[i].cbError = NoErr
         /\ w[i].cbImageId = w[i].clonedImageId
         /\ w[i].cbImageId # NoImageId
         /\ w[i].calls.modifyImageAttribute = 1
         /\ results[RegionOf(i)].success
         /\ results[RegionOf(i)].imageId # NoImageId
    /\ (w[i].outcome = "failed" /\ w[i].cbError.kind # "noImage") =>
         w[i].attempt = RetryTimes

C15_Witness ==
  \E i \in Workers :
    /\ w[i].attempt > 1
    /\ w[i].outcome = "ok"
    /\ results[RegionOf(i)].success
    /\ results[RegionOf(i)].imageId = w[i].clonedImageId

Started(i, s) == \E k \in 1..Len(w[i].started) : w[i].started[k] = s
PollOver(i) ==
  /\ Started(i, "awaitCompletion")
  /\ "awaitCompletion" \notin w[i].inflight
  /\ w[i].failedAt # "awaitCompletion"
LastObserved(i) == w[i].observed[Len(w[i].observed)]

\* C16: awaitImageCopyCompletion calls back without error only after a query
\* of the new image returned a state other than 'pending', so the tag step
\* is never started while the last observed state is 'pending'; every query
\* observes one state, and a poll that is over after k 'pending' states and
\* one other state made exactly k+1 describeImage queries.
C16_PollEndsOnNonPending ==
  \A i \in Workers :
    /\ Len(w[i].observed) <= w[i].queries
    /\ w[i].queries = w[i].calls.describeImage
    /\ (PollOver(i) \/ Started(i, "tagImage")) =>
         /\ w[i].observed # <<>>
         /\ LastObserved(i) # "pending"
         /\ w[i].imageState = LastObserved(i)
         /\ w[i].queries = Len(w[i].observed)
    /\ (Started(i, "awaitCompletion") /\ w[i].observed # <<>>
          /\ LastObserved(i) = "pending") =>
         (~Started(i, "tagImage") /\ ~PollOver(i))
    /\ \A k \in 0..MaxPolls :
         (/\ PollOver(i)
          /\ Len(w[i].observed) = k + 1
          /\ \A j \in 1..k : w[i].observed[j] = "pending") =>
           (w[i].queries = k + 1 /\ w[i].calls.describeImage = k + 1)

C16_Witness ==
  \E i \in Workers :
    /\ PollOver(i)
    /\ Started(i, "tagImage")
    /\ w[i].observed = <<"pending", "available">>
    /\ w[i].queries = 2

\* C19 as stated: the poller remains Pending only when the queried state is
\* 'pending'; after any other query result, an empty or absent state
\* included, the poll is over and no further query is made.
C19_TerminalUnlessPending ==
  \A i \in Workers :
    (w[i].observed # <<>> /\ LastObserved(i) # "pending") =>
      "awaitCompletion" \notin w[i].inflight

\* C19 amended: the poller remains Pending when the queried state is
\* 'pending' or is empty or absent; after every other state ('available',
\* 'failed') the poll is over without a further query, and only 'pending'
\* and empty states are followed by another query.
C19_TerminalUnlessPendingOrEmpty ==
  \A i \in Workers :
    w[i].observed # <<>> =>
      /\ LastObserved(i) \in {"pending", ""} =>
           /\ ~PollOver(i)
           /\ ~Started(i, "tagImage")
           /\ "awaitCompletion" \in w[i].inflight \/ w[i].failedAt = "awaitCompletion"
      /\ LastObserved(i) \notin {"pending", ""} =>
           /\ PollOver(i)
           /\ w[i].queries = Len(w[i].observed)
           /\ w[i].phase = "none"
      /\ \A k \in 1..(Len(w[i].observed) - 1) : w[i].observed[k] \in {"pending", ""}

C19_Witness ==
  \E i \in Workers :
    /\ w[i].observed = <<"", "available">>
    /\ w[i].queries = 2
    /\ PollOver(i)
    /\ Started(i, "tagImage")

\* C20: the poller does not treat the state 'failed' as an error: once a
\* query has returned 'failed' the poll has called back without error and
\* the region's series has started the tag step.
C20_FailedStateIsNotAnError ==
  \A i \in Workers :
    (w[i].observed # <<>> /\ LastObserved(i) = "failed") =>
      /\ PollOver(i)
      /\ w[i].failedAt # "awaitCompletion"
      /\ Started(i, "tagImage")
      /\ w[i].calls.tagImage = 1
      /\ w[i].started = <<"copyImage", "awaitCompletion", "tagImage">>
           => (w[i].outcome = "running" \/ w[i].failedAt = "tagImage")

C20_Witness ==
  \E i \in Workers :
    /\ w[i].imageState = "failed"
    /\ LastObserved(i) = "failed"
    /\ "tagImage" \in w[i].inflight
    /\ w[i].outcome = "running"

Raw(c) ==
  [sourceImageId |-> Str(c.sourceImageId),
   sourceRegion |-> Str(c.sourceRegion),
   destinationRegions |->
     Arr([k \in 1..Len(c.destinationRegions) |-> Item("string", c.destinationRegions[k], 0)]),
   progressCheckIntervalInSeconds |->
     IF c.progressCheckIntervalInSeconds = Absent THEN Undef
     ELSE Num(c.progressCheckIntervalInSeconds),
   clientOptions |-> Undef,
   other |-> Undef]

Interval == "progressCheckIntervalInSeconds"

\* C17: the constructor sets progressCheckIntervalInSeconds to 30 exactly
\* when the caller left it out, leaves every provided value (0 included)
\* and every other property as it was, and does so before cloneImage
\* validates: a configuration that only lacks that property passes.
C17_DefaultOnlyWhenAbsent ==
  /\ cv.stage # "none" =>
       /\ cv.input[Interval].t = "undefined" => cv.config[Interval] = Num(DefaultInterval)
       /\ cv.input[Interval].t # "undefined" => cv.config[Interval] = cv.input[Interval]
       /\ \A p \in PropNames \ {Interval} : cv.config[p] = cv.input[p]
  /\ cv.stage = "validated" =>
       /\ (cv.input[Interval].t = "undefined") => (Interval \notin cv.errors)
       /\ (cv.input[Interval].t = "undefined"
             /\ Violations([cv.input EXCEPT ![Interval] = Num(0)]) = {}) =>
            cv.errors = {}
  /\ \A c \in Configs : Raw(fillConfigurationDefaults(c)) = Defaults(Raw(c))

C17_Witness ==
  /\ cv.stage = "validated"
  /\ cv.input[Interval] = Undef
  /\ cv.config[Interval] = Num(DefaultInterval)
  /\ cv.errors = {}

WellFormed(rc) ==
  /\ rc.sourceImageId.t = "string" /\ rc.sourceImageId.s # ""
  /\ rc.sourceRegion.t = "string" /\ rc.sourceRegion.s # ""
  /\ rc.destinationRegions.t = "array"
  /\ Len(rc.destinationRegions.a) >= 1
  /\ \A k \in 1..Len(rc.destinationRegions.a) :
       rc.destinationRegions.a[k].t = "string" /\ rc.destinationRegions.a[k].s # ""
  /\ rc.progressCheckIntervalInSeconds.t = "number"
  /\ rc.progressCheckIntervalInSeconds.n >= 0
  /\ rc.clientOptions.t \in {"undefined", "object"}
  /\ rc.other.t = "undefined"

\* C18: ConfigValidator.validate returns no violation exactly when
\* sourceImageId and sourceRegion are non-empty strings, destinationRegions
\* is an array of at least one non-empty string,
\* progressCheckIntervalInSeconds is a number >= 0, clientOptions is absent
\* or an object and no other property is there; cloneImage's validation
\* judges the configuration with its defaults the same way.
C18_ValidExactlyWhenWellFormed ==
  /\ cv.direct # <<>> =>
       (cv.direct[1].errors = {} <=> WellFormed(cv.direct[1].config))
  /\ cv.stage = "validated" => (cv.errors = {} <=> WellFormed(cv.config))
  /\ \A c \in Configs : validate(c) = Violations(Raw(c))

C18_Witness ==
  /\ cv.stage = "none"
  /\ cv.direct # <<>>
  /\ cv.direct[1].errors = {}
  /\ cv.direct[1].config.clientOptions = Obj
  /\ Len(cv.direct[1].config.destinationRegions.a) = 2

\* C21: an error of a describeImage query during polling ends the poll at
\* once: the worker's callback receives that error, the failing query is
\* the last one for that image (every earlier query observed a state), the
\* loop set no further timer and no later task was started.
C21_QueryErrorAbortsPoll ==
  \A i \in Workers :
    /\ w[i].queries <= Len(w[i].observed) + 1
    /\ w[i].failedAt = "awaitCompletion" =>
         /\ w[i].outcome = "failed"
         /\ w[i].cbError \in {Err("describeImages", i), Err("noImage", i)}
         /\ w[i].inflight = {}
         /\ w[i].queries = Len(w[i].observed) + 1
         /\ w[i].calls.describeImage = w[i].queries
         /\ w[i].waits = w[i].queries
         /\ w[i].started = <<"copyImage", "awaitCompletion">>
    /\ (w[i].outcome = "running" /\ w[i].queries = Len(w[i].observed) + 1) =>
         (w[i].phase = "query" /\ "awaitCompletion" \in w[i].inflight)

C21_Witness ==
  \E i \in Workers :
    /\ w[i].failedAt = "awaitCompletion"
    /\ w[i].observed = <<"pending">>
    /\ w[i].queries = 2
    /\ w[i].cbError = Err("describeImages", i)
    /\ results[RegionOf(i)].error = Err("describeImages", i)

Completes(i) == w[i].outcome = "running" /\ w'[i].outcome \in {"ok", "failed"}

\* C22: a worker writes only the report entry of its own destination
\* region: in the step in which a worker completes the entries of all other
\* regions stay as they are, and once the report is built no other step
\* changes any entry.
C22_OnlyOwnEntry ==
  [][/\ \A i \in Workers :
          Completes(i) =>
            \A r \in DOMAIN results \ {RegionOf(i)} :
              r \in DOMAIN results' /\ results'[r] = results[r]
     /\ (task # "none" /\ results' # results) => \E i \in Workers : Completes(i)]_vars

C22_Witness ==
  \E i, j \in Workers :
    /\ RegionOf(i) # RegionOf(j)
    /\ w[i].outcome = "failed"
    /\ results[RegionOf(i)].error = w[i].cbError
    /\ w[j].outcome = "running"
    /\ results[RegionOf(j)] = Placeholder

\* C23: the key set of the report is fixed when cloneImage builds it: from
\* then on the report's keys, and the keys of the report the top-level
\* callback receives, are the destination regions, whatever the workers
\* have stored.
C23_KeySetFixed ==
  /\ task # "none" => DOMAIN results = RegionKeys
  /\ CalledBack => DOMAIN cbResults = RegionKeys

C23_Witness ==
  /\ Cardinality(DOMAIN results) = 2
  /\ \E i, j \in Workers :
       /\ RegionOf(i) # RegionOf(j)
       /\ w[i].outcome = "ok"
       /\ w[j].outcome = "failed"
       /\ results[RegionOf(i)].success
       /\ results[RegionOf(j)].error = w[j].cbError

SameRegion(i) == {j \in Workers : RegionOf(j) = RegionOf(i)}

C25_SourceReadOnce ==
  /\ calls.describeImage <= 1
  /\ calls.describeImageAttribute <= 1
  /\ FanOutStarted =>
       /\ calls.describeImage = 1
       /\ calls.describeImageAttribute = 1
       /\ lookups.describeImage.status = "ok"
       /\ lookups.describeImageAttribute.status = "ok"
       /\ sourceImage # NoImage
       /\ sourceImageLaunchPermissions.defined
  /\ \A i \in Workers :
       w[i].outcome # "idle" =>
         /\ w[i].calls.copyImage = 1
         /\ w[i].image = sourceImage
         /\ w[i].launchPermissions = sourceImageLaunchPermissions
         /\ w[i].calls.describeImageAttribute = 0
  /\ \A i \in 1..MaxWorkers : w[i].outcome = "idle" => w[i].calls = NoCalls

C25_Witness ==
  /\ N = 2
  /\ \A i \in Workers : w[i].calls.copyImage = 1 /\ w[i].image.ImageId = "ami-1"
  /\ \E i \in Workers : w[i].outcome = "ok"
  /\ \E i \in Workers : w[i].outcome = "failed"
  /\ calls.describeImage = 1
  /\ calls.describeImageAttribute = 1

\* C26: whenever the top-level callback receives an error of a worker, that
\* error is the one stored in the report entry of a failed region; with one
\* destination region whose tag step fails on every attempt the entry is
\* success false with the tag error, the top-level error is that same error
\* and modifyImageAttribute was never called for the region.
C26_TopErrorIsARegionError ==
  /\ (CalledBack /\ cbError # NoErr /\ cbError.who # 0) =>
       \E r \in DOMAIN cbResults :
         /\ cbResults[r].error = cbError
         /\ \E i \in Workers : RegionOf(i) = r /\ cbOutcome[i] = "failed"
  /\ (N = 1 /\ w[1].failedAt = "tagImage") =>
       /\ w[1].attempt = RetryTimes
       /\ results[RegionOf(1)] =
            [error |-> Err("createTags", 1), imageId |-> NoImageId, success |-> FALSE]
       /\ CalledBack
       /\ cbError = Err("createTags", 1)
       /\ cbResults = results
       /\ w[1].calls.modifyImageAttribute = 0
       /\ ~Started(1, "setLaunchPermissions")

\* C27: describeImage calls back with an error when the describeImages
\* answer holds no image, and that answer is not retried: it is the last
\* invocation of the call, the only one when no attempt failed before it;
\* describeImage yields an image only from an answer that holds one.
C27_EmptyAnswerIsAnErrorNotRetried ==
  /\ ec.error = "noImage" =>
       /\ ec.method = "describeImage"
       /\ ec.status = "error"
       /\ ec.response = 0
       /\ ec.callbacks = 1
       /\ ec.attempts = ec.failures + 1
       /\ ec.failures = 0 => ec.attempts = 1
  /\ (ec.method = "describeImage" /\ ec.status \in {"ok", "error"}
        /\ ec.error # "describeImages" /\ ec.response = 0) =>
       ec.error = "noImage"
  /\ (ec.method = "describeImage" /\ ec.status = "ok") =>
       (ec.response >= 1 /\ ec.yielded = 1)

C27_Witness ==
  /\ ec.method = "describeImage"
  /\ ec.error = "noImage"
  /\ ec.attempts = 1
  /\ ec.callbacks = 1

\* C28: describeImageAttribute and modifyImageAttribute call back with an
\* error for every attribute other than launchPermission:
\* modifyImageAttribute before any client call, describeImageAttribute only
\* once its client call has returned.
C28_UnsupportedAttributeRejected ==
  /\ (ec.method = "modifyImageAttribute" /\ ec.attribute # "launchPermission") =>
       /\ ec.status = "error"
       /\ ec.error = "unsupported"
       /\ ec.attempts = 0
       /\ ec.callbacks = 1
  /\ (ec.method = "describeImageAttribute" /\ ec.attribute # "launchPermission") =>
       /\ ec.status \in {"inflight", "error"}
       /\ ec.status = "inflight" => ec.callbacks = 0
       /\ ec.status = "error" =>
            /\ ec.attempts >= 1
            /\ ec.callbacks = 1
            /\ \/ ec.error = "unsupported" /\ ec.attempts = ec.failures + 1
               \/ ec.error = "describeImageAttribute" /\ ec.failures = RetryTimes
  /\ ec.error = "unsupported" =>
       /\ ec.method \in {"describeImageAttribute", "modifyImageAttribute"}
       /\ ec.attribute # "launchPermission"
  /\ (ec.method = "modifyImageAttribute" /\ ec.attribute = "launchPermission") =>
       ec.attempts >= 1

AllCompleted == \A i \in Workers : w[i].outcome \in {"ok", "failed"}

\* C29: when every remote call answers and every poll comes to an end,
\* every launched worker eventually completes and cloneImage eventually
\* invokes the top-level callback.
C29_EveryWorkerCompletes ==
  /\ FanOutStarted ~> AllCompleted
  /\ (task # "none") ~> CalledBack

\* C30: in every execution of cloneImage the fan-out step signals its
\* completion to the enclosing series exactly once: never a second time,
\* and once when all workers have completed.
C30_FanOutSignalsOnce ==
  /\ signals <= 1
  /\ ~thrown
  /\ (FanOutStarted /\ AllCompleted) => signals = 1

\* C31: the poller waits one interval of progressCheckIntervalInSeconds
\* before every query, the first included: waits and queries alternate
\* starting with a wait (a timer is pending exactly when one more wait than
\* queries has begun), every wait is of the configured interval, and a poll
\* that has ended after n queries has made n waits.
C31_WaitBeforeEveryQuery ==
  \A i \in Workers :
    /\ w[i].waits - w[i].queries \in 0..1
    /\ Len(w[i].intervals) = w[i].waits
    /\ \A k \in 1..Len(w[i].intervals) :
         w[i].intervals[k] = config.progressCheckIntervalInSeconds * 1000
    /\ w[i].queries >= 1 => w[i].waits >= 1
    /\ (w[i].outcome = "running" /\ "awaitCompletion" \in w[i].inflight) =>
         /\ w[i].phase = "timer" <=> w[i].waits = w[i].queries + 1
         /\ w[i].phase = "query" <=> w[i].waits = w[i].queries
    /\ (Started(i, "awaitCompletion") /\ "awaitCompletion" \notin w[i].inflight) =>
         (w[i].waits = w[i].queries /\ w[i].queries >= 1)
    /\ ~Started(i, "awaitCompletion") => (w[i].waits = 0 /\ w[i].queries = 0)

C31_Witness ==
  \E i \in Workers :
    /\ PollOver(i)
    /\ w[i].queries = 2
    /\ w[i].waits = 2
    /\ w[i].intervals = <<DefaultInterval * 1000, DefaultInterval * 1000>>

\* C32: the configuration is immutable: cloneImage(config, callback) leaves
\* the caller's configuration object as the caller built it.
C32_CallersConfigurationUnchanged == cv.caller = cv.input

\* C33: the operation keeps no state between invocations and is not
\* idempotent: a second invocation with the same configuration starts from
\* nothing, makes its own copy request for every destination region, and
\* reports the id its own copy returned, which differs from every id of the
\* first invocation.
C33_EachInvocationCopiesAnew ==
  past # <<>> =>
    /\ past[1].fanOut => past[1].copyCalls = N
    /\ task = "none" =>
         /\ AllIdle
         /\ DOMAIN results = {}
         /\ calls = NoCalls
         /\ firstCloneImageError = NoErr
         /\ cbCount = 0
    /\ \A i \in Workers :
         /\ w[i].outcome # "idle" => w[i].calls.copyImage = 1
         /\ w[i].clonedImageId # NoImageId => w[i].clonedImageId \notin past[1].imageIds
    /\ \A r \in DOMAIN results :
         results[r].success =>
           /\ results[r].imageId \notin past[1].imageIds
           /\ \E i \in Workers :
                /\ RegionOf(i) = r
                /\ w[i].outcome = "ok"
                /\ w[i].clonedImageId = results[r].imageId
           /\ past[1].results[r].success =>
                results[r].imageId # past[1].results[r].imageId

C33_Witness ==
  /\ past # <<>>
  /\ ~thrown
  /\ \E r \in DOMAIN results :
       /\ past[1].results[r].success
       /\ results[r].success
       /\ results[r].imageId # past[1].results[r].imageId
  /\ \E r \in DOMAIN results : ~past[1].results[r].success /\ ~results[r].success
  /\ past[1].copyCalls = 2
  /\ \A i \in Workers : w[i].calls.copyImage = 1

====
